---- MODULE Spec2Model ----
(***************************************************************************)
(* Model of temps.ipynb: a SQLAlchemy Core schema of two tables (feeders,  *)
(* temps) on a SQLite file, store_packet (one INSERT in one transaction)   *)
(* and low_by_date (SELECT min(celsius) over one feeder and one day).      *)
(*                                                                         *)
(* Python None / SQL NULL is the empty tuple << >>, a present value v is   *)
(* the one-element tuple <<v>>.  A datetime is a record [date, time]; the  *)
(* time of day runs over time_min..time_max (00:00:00 and 23:59:59.999999, *)
(* the two ends of a day).                                                 *)
(* SQLite has no datetime type: the DateTime column holds the formatted    *)
(* text, and BETWEEN compares texts character by character.                *)
(***************************************************************************)
EXTENDS Integers, Sequences, FiniteSets

\* ------------------------------------------------------------- bounds
\* At most MaxRows rows are stored in temps.
MaxRows == 2

\* ---------------------------------------------------------- constants
\* datetime.time.min and datetime.time.max as ticks of the day: 00:00:00 and
\* 23:59:59.999999, the first and the last time of day a datetime can carry.
time_min == 0
time_max == 1
Times == time_min..time_max

\* Two consecutive calendar days, written with one and with two digits.
Days == {9, 10}

None == << >>

\* The feeder ids callers use, and the feeder rows a temps.db found on disk
\* may already hold (the notebook itself inserts no feeder).
FeederIds == {1, 2}
KnownFeeders == {1}
Celsius == {10, 20}
Callers == {1, 2}

\* metadata: the two tables declared in the catalog.
metadata == {"feeders", "temps"}

\* engine: sqlite:///temps.db with no PRAGMA foreign_keys=ON listener; SQLite
\* leaves foreign-key enforcement off on every new connection.
foreign_keys == FALSE

Datetimes == [date : Days, time : Times]
Opt(S) == {None} \cup {<<v>> : v \in S}
\* The data dict of a packet: ts, celsius (a missing key is None).  The
\* condition column is nullable text under no constraint and is read by no
\* query; it is carried like celsius and is left out of the rows.
Packets == [ts : Opt(Datetimes), celsius : Opt(Celsius)]
\* The packets concurrent callers send: readings taken at midnight.
ConcPackets == {p \in Packets : p.ts # None => p.ts[1].time = time_min}
\* Where the store can fail during a store_packet call.
Faults == {"none", "begin", "commit"}
\* The values two successive evaluations of date.today() can return.
Clocks == {c \in Days \X Days : c[2] = c[1] \/ c[2] = c[1] + 1}

VARIABLES
    tables,   \* names of the tables that exist in temps.db
    feeders,  \* ids of the rows of table feeders
    temps,    \* committed rows of table temps, in rowid order
    ret,      \* the most recent call that returned, and its outcome
    pc,       \* per caller: "idle" or "inserted" (INSERT done, not committed)
    txn,      \* per caller: the table pages of its open write transaction
    lock,     \* holder of SQLite's RESERVED lock, or None
    acked     \* rows of the store_packet calls that returned normally

vars == <<tables, feeders, temps, ret, pc, txn, lock, acked>>

\* ------------------------------------------------------ pure helpers
Min(S) == CHOOSE x \in S : \A y \in S : x <= y

RowSet(rows) == {rows[i] : i \in 1..Len(rows)}

\* datetime.combine(d, t)
combine(d, t) == [date |-> d, time |-> t]

\* ts_start or date.today(): date.today() is evaluated only without ts_start.
or_today(ts_start, clock, n) == IF ts_start # None THEN ts_start[1] ELSE clock[n]

\* SQLite DateTime bind processor: the datetime formatted with a zero-padded
\* two-digit day, as the sequence of its digits.
bind_processor(dt) == <<dt.date \div 10, dt.date % 10, dt.time>>

\* SQLite DateTime result processor: the stored text parsed back.
result_processor(text) == [date |-> text[1] * 10 + text[2], time |-> text[3]]

\* Text comparison of two values of equal length (BINARY collation).
RECURSIVE TextLE(_, _)
TextLE(a, b) ==
    IF a = << >> THEN TRUE
    ELSE IF a[1] # b[1] THEN a[1] < b[1]
    ELSE TextLE(Tail(a), Tail(b))

\* Variant: the upper bound excluded.
between_half_open(ts, lo, hi) == TextLE(lo, ts) /\ TextLE(ts, hi) /\ ts # hi
\* temps.c.ts.between(lo, hi): lo <= ts AND ts <= hi on the stored text.
between(ts, lo, hi) == TextLE(lo, ts) /\ TextLE(ts, hi)

\* Variant: the date condition forgotten.
where_clause_no_date(row, feeder, lo, hi) == row.feeder_id = <<feeder>>
\* WHERE temps.feeder_id = :feeder AND temps.ts BETWEEN :lo AND :hi
where_clause(row, feeder, lo, hi) ==
    /\ row.feeder_id = <<feeder>>
    /\ between(row.ts, bind_processor(lo), bind_processor(hi))

\* Variant: the feeder condition forgotten.
select_min_any_feeder(rows, feeder, lo, hi) ==
    LET values == {r.celsius[1] : r \in {q \in rows :
                        /\ between(q.ts, bind_processor(lo), bind_processor(hi))
                        /\ q.celsius # None}}
    IN IF values = {} THEN None ELSE <<Min(values)>>
\* SELECT min(temps.celsius) ... followed by .scalar(): min() skips NULLs and
\* is NULL (None) over no value.
select_min(rows, feeder, lo, hi) ==
    LET values == {r.celsius[1] : r \in {q \in rows :
                        where_clause(q, feeder, lo, hi) /\ q.celsius # None}}
    IN IF values = {} THEN None ELSE <<Min(values)>>

\* The row temps.insert() builds from dict(feeder_id=feeder_id, **data); the
\* INTEGER PRIMARY KEY is the next rowid.
new_row(rows, feeder_id, data) ==
    [id        |-> Len(rows) + 1,
     feeder_id |-> <<feeder_id>>,
     ts        |-> bind_processor(data.ts[1]),
     celsius   |-> data.celsius]

\* Variant: the row replaces the table's content.
insert_overwrites(rows, row) == <<[row EXCEPT !.id = 1]>>
\* INSERT INTO temps: the table with the row added.
insert(rows, row) == Append(rows, row)

\* Constraints of table temps checked by the INSERT: ts NOT NULL, and the
\* foreign key feeder_id -> feeders.id when the connection enforces it.
constraint_ok(feeder_id, data) ==
    /\ data.ts # None
    /\ foreign_keys => feeder_id \in feeders

\* Variant: no rollback, the written pages stay.
rollback_keeps_pages(before, pages) == pages
\* engine.begin() leaving its block by an exception: ROLLBACK restores the
\* table as it was before the transaction.
rollback(before, pages) == before

\* Variant: no write lock.
busy_never(c) == FALSE
\* SQLITE_BUSY: another connection holds the write lock.
busy(c) == lock # None /\ lock # <<c>>

\* Variant: reads see the pages of an open write transaction.
visible_rows_dirty == IF \E c \in Callers : pc[c] = "inserted"
                      THEN txn[CHOOSE c \in Callers : pc[c] = "inserted"]
                      ELSE temps
\* What a connection reads: the committed rows, never another connection's pages.
visible_rows == temps

\* Variant: every table is created anew.
to_create_unchecked == metadata
\* Tables create_all(checkfirst=True) issues CREATE TABLE for.
to_create == metadata \ tables

Returned(op, feeder, raised, value, window) ==
    [op |-> op, feeder |-> feeder, raised |-> raised, value |-> value, window |-> window]

Raised(feeder_id, error) == Returned("store_packet", <<feeder_id>>, error, None, None)

\* ------------------------------------------------------------- state
TypeOK ==
    /\ tables \subseteq metadata
    /\ feeders \subseteq FeederIds
    /\ Len(temps) <= MaxRows
    /\ \A i \in 1..Len(temps) : temps[i].id = i
    /\ pc \in [Callers -> {"idle", "inserted"}]
    /\ lock \in Opt(Callers)

Init ==
    /\ tables \in SUBSET metadata
    /\ feeders \in (IF "feeders" \in tables THEN {{}, KnownFeeders} ELSE {{}})
    /\ temps = << >>
    /\ ret = Returned("none", None, "none", None, None)
    /\ pc = [c \in Callers |-> "idle"]
    /\ txn = [c \in Callers |-> << >>]
    /\ lock = None
    /\ acked = {}

\* ----------------------------------------------------------- actions
\* metadata.create_all(engine)
create_all ==
    /\ \A c \in Callers : pc[c] = "idle"
    /\ tables' = tables \cup to_create
    /\ feeders' = IF "feeders" \in to_create THEN {} ELSE feeders
    /\ temps' = IF "temps" \in to_create THEN << >> ELSE temps
    /\ ret' = Returned("create_all", None, "none", None, None)
    /\ UNCHANGED <<pc, txn, lock, acked>>

\* store_packet(feeder_id, data), run by one caller from begin to commit.
\* fault: "none", or the point where the store fails ("begin", "commit").
store_packet(feeder_id, data, fault) ==
    /\ tables = metadata
    /\ Len(temps) < MaxRows
    /\ \A c \in Callers : pc[c] = "idle"
    /\ IF fault = "begin" THEN
            /\ ret' = Raised(feeder_id, "OperationalError")
            /\ UNCHANGED <<temps, acked>>
       ELSE IF ~constraint_ok(feeder_id, data) THEN
            /\ ret' = Raised(feeder_id, "IntegrityError")
            /\ UNCHANGED <<temps, acked>>
       ELSE LET row == new_row(temps, feeder_id, data)
                pages == insert(temps, row)
            IN IF fault = "commit" THEN
                    /\ ret' = Raised(feeder_id, "OperationalError")
                    /\ temps' = rollback(temps, pages)
                    /\ UNCHANGED acked
               ELSE
                    /\ temps' = pages
                    /\ acked' = acked \cup {row}
                    /\ ret' = Raised(feeder_id, "none")
    /\ UNCHANGED <<tables, feeders, pc, txn, lock>>

\* low_by_date(feeder, ts_start), against a store that answers.  clock: what
\* the two evaluations of date.today() return, None when ts_start is given.
low_by_date(feeder, ts_start, clock) ==
    /\ tables = metadata
    /\ IF ts_start # None THEN clock = None ELSE clock \in Clocks
    /\ LET lo == combine(or_today(ts_start, clock, 1), time_min)
           hi == combine(or_today(ts_start, clock, 2), time_max)
       IN ret' = Returned("low_by_date", <<feeder>>, "none",
                          select_min(RowSet(visible_rows), feeder, lo, hi),
                          <<lo.date, hi.date>>)
    /\ UNCHANGED <<tables, feeders, temps, pc, txn, lock, acked>>

\* Concurrent callers: store_packet up to the INSERT (engine.begin() and
\* conn.execute), which takes SQLite's write lock or fails when it is held.
execute(c, feeder_id, data) ==
    /\ tables = metadata
    /\ pc[c] = "idle"
    /\ Len(temps) < MaxRows
    /\ IF busy(c) THEN
            /\ ret' = Raised(feeder_id, "OperationalError")
            /\ UNCHANGED <<pc, txn, lock>>
       ELSE IF ~constraint_ok(feeder_id, data) THEN
            /\ ret' = Raised(feeder_id, "IntegrityError")
            /\ UNCHANGED <<pc, txn, lock>>
       ELSE
            /\ lock' = <<c>>
            /\ txn' = [txn EXCEPT ![c] = insert(temps, new_row(temps, feeder_id, data))]
            /\ pc' = [pc EXCEPT ![c] = "inserted"]
            /\ UNCHANGED ret
    /\ UNCHANGED <<tables, feeders, temps, acked>>

\* The implicit conn.commit() on leaving the with block, and the return.
commit(c) ==
    /\ pc[c] = "inserted"
    /\ temps' = txn[c]
    /\ acked' = acked \cup {txn[c][Len(txn[c])]}
    /\ ret' = Raised(txn[c][Len(txn[c])].feeder_id[1], "none")
    /\ lock' = IF lock = <<c>> THEN None ELSE lock
    /\ txn' = [txn EXCEPT ![c] = << >>]
    /\ pc' = [pc EXCEPT ![c] = "idle"]
    /\ UNCHANGED <<tables, feeders>>

\* The commit fails (the store went away): ROLLBACK, the error is raised.
commit_fails(c) ==
    /\ pc[c] = "inserted"
    /\ temps' = rollback(temps, txn[c])
    /\ ret' = Raised(txn[c][Len(txn[c])].feeder_id[1], "OperationalError")
    /\ lock' = IF lock = <<c>> THEN None ELSE lock
    /\ txn' = [txn EXCEPT ![c] = << >>]
    /\ pc' = [pc EXCEPT ![c] = "idle"]
    /\ UNCHANGED <<tables, feeders, acked>>

Next ==
    \/ create_all
    \/ \E f \in FeederIds, data \in Packets, fault \in Faults : store_packet(f, data, fault)
    \/ \E f \in FeederIds, d \in Opt(Days), clock \in Clocks \cup {None} : low_by_date(f, d, clock)

Spec == Init /\ [][Next]_vars

NextConc ==
    \/ create_all
    \/ \E c \in Callers, f \in FeederIds, data \in ConcPackets : execute(c, f, data)
    \/ \E c \in Callers : commit(c)
    \/ \E c \in Callers : commit_fails(c)
    \/ \E f \in FeederIds, d \in Opt(Days), clock \in Clocks \cup {None} : low_by_date(f, d, clock)

SpecConc == Init /\ [][NextConc]_vars

\* ------------------------------------------------------------ claims
\* What the claims speak of, stated apart from the query's own operators.
date_of(text) == text[1] * 10 + text[2]

Readings(rows, f, d1, d2) ==
    {r \in rows : r.feeder_id = <<f>> /\ d1 <= date_of(r.ts) /\ date_of(r.ts) <= d2}

Lowest(rows, f, d1, d2) ==
    LET S == {r.celsius[1] : r \in {q \in Readings(rows, f, d1, d2) : q.celsius # None}}
    IN IF S = {} THEN None ELSE <<CHOOSE m \in S : \A x \in S : m <= x>>

LastRow == temps[Len(temps)]

\* C1: store_packet with a feeder_id that is no row of feeders and a valid
\* timestamp fails with a constraint violation and leaves temps as it was.
C1_UnknownFeederRejected ==
    [][\A f \in FeederIds, data \in Packets :
          (store_packet(f, data, "none") /\ f \notin feeders /\ data.ts # None)
              => (ret'.raised = "IntegrityError" /\ temps' = temps)]_vars

\* C2: in every reachable state every row of temps has a feeder_id that is
\* present and is the id of a row of feeders.
C2_EveryReadingHasFeeder ==
    \A i \in 1..Len(temps) :
        temps[i].feeder_id # None /\ temps[i].feeder_id[1] \in feeders

\* C3: store_packet is atomic: it returns normally and temps has exactly one
\* more row, carrying the given feeder_id, timestamp and celsius, with the
\* earlier rows unchanged; or it raises (no timestamp, store failing at begin
\* or at commit) and temps is unchanged.
C3_StorePacketAtomic ==
    [][\A f \in {g \in FeederIds : ret'.op = "store_packet" /\ ret'.feeder = <<g>>}, data \in Packets, fault \in Faults :
          store_packet(f, data, fault) =>
              /\ ret'.op = "store_packet"
              /\ (data.ts = None \/ fault # "none") => ret'.raised # "none"
              /\ ret'.raised = "none" =>
                    /\ Len(temps') = Len(temps) + 1
                    /\ SubSeq(temps', 1, Len(temps)) = temps
                    /\ temps'[Len(temps')].feeder_id = <<f>>
                    /\ result_processor(temps'[Len(temps')].ts) = data.ts[1]
                    /\ temps'[Len(temps')].celsius = data.celsius
              /\ ret'.raised # "none" => temps' = temps]_vars

\* A store_packet call returned normally and its row, stored without a
\* celsius value, is the last of the MaxRows rows of temps.
C3_Witness ==
    /\ ret.op = "store_packet" /\ ret.raised = "none"
    /\ Len(temps) = MaxRows
    /\ LastRow.feeder_id = ret.feeder
    /\ LastRow.celsius = None

\* C4: low_by_date(f, d) returns the minimum celsius among exactly the rows of
\* temps of feeder f whose timestamp lies on day d (None when there is none).
C4_LowIsMinimumOfFeederAndDay ==
    (ret.op = "low_by_date" /\ ret.window[1] = ret.window[2]) =>
        ret.value = Lowest(RowSet(temps), ret.feeder[1], ret.window[1], ret.window[1])

\* Two readings of one feeder on one day, 20 stored before 10, a reading being
\* asked for that feeder and day: the answer is 10.
C4_Witness ==
    /\ Len(temps) = 2
    /\ temps[1].feeder_id = temps[2].feeder_id
    /\ date_of(temps[1].ts) = date_of(temps[2].ts)
    /\ temps[1].celsius = <<20>> /\ temps[2].celsius = <<10>>
    /\ ret.op = "low_by_date" /\ ret.feeder = temps[1].feeder_id
    /\ ret.window = <<date_of(temps[1].ts), date_of(temps[1].ts)>>
    /\ ret.value = <<10>>

\* C5: the window of day d is inclusive at both ends and is exactly day d: a
\* stored reading is selected by the WHERE clause of day d if and only if its
\* timestamp lies on d (so 00:00:00 and the last instant of d are, 00:00:00 of
\* d+1 is not, and no reading is selected for two days).
C5_WindowIsExactlyTheDay ==
    \A i \in 1..Len(temps) :
        /\ \A d \in Days :
              where_clause(temps[i], temps[i].feeder_id[1],
                           combine(d, time_min), combine(d, time_max))
                  <=> date_of(temps[i].ts) = d
        /\ Cardinality({d \in Days :
              where_clause(temps[i], temps[i].feeder_id[1],
                           combine(d, time_min), combine(d, time_max))}) = 1

\* A reading at the last instant of day 9 and a colder one at 00:00:00 of day
\* 10, same feeder; low_by_date for day 9 returned the first one's celsius.
C5_Witness ==
    /\ Len(temps) = 2
    /\ temps[1].feeder_id = temps[2].feeder_id
    /\ temps[1].ts = bind_processor(combine(9, time_max))
    /\ temps[2].ts = bind_processor(combine(10, time_min))
    /\ temps[1].celsius = <<20>> /\ temps[2].celsius = <<10>>
    /\ ret.op = "low_by_date" /\ ret.feeder = temps[1].feeder_id
    /\ ret.window = <<9, 9>>
    /\ ret.value = <<20>>

\* C6: when no stored reading matches the feeder and the date, low_by_date
\* returns None and raises nothing, whether or not the feeder exists.
C6_NoDataIsNone ==
    (ret.op = "low_by_date"
        /\ Readings(RowSet(temps), ret.feeder[1], ret.window[1], ret.window[2]) = {})
    => (ret.value = None /\ ret.raised = "none")

\* low_by_date returned None for a feeder that is no row of feeders, while
\* temps holds a reading of another feeder on the day asked for.
C6_Witness ==
    /\ ret.op = "low_by_date" /\ ret.value = None /\ ret.raised = "none"
    /\ ret.feeder[1] \notin feeders
    /\ feeders # {}
    /\ \E i \in 1..Len(temps) :
          /\ temps[i].feeder_id # ret.feeder
          /\ temps[i].celsius # None
          /\ date_of(temps[i].ts) = ret.window[1]

\* C7: once store_packet(f, {ts: T, celsius: C}) has returned normally, every
\* low_by_date(f, date-of(T)) returns a number <= C, and the answer for a fixed
\* feeder and day never rises and never goes back to None.
C7_LowNeverAboveStored ==
    [][/\ (ret'.op = "low_by_date" /\ ret'.window[1] = ret'.window[2]) =>
             \A r \in acked :
                 (r.feeder_id = ret'.feeder /\ date_of(r.ts) = ret'.window[1]
                    /\ r.celsius # None)
                 => (ret'.value # None /\ ret'.value[1] <= r.celsius[1])
       /\ \A f \in {g \in FeederIds : temps' # temps}, d \in Days :
             LET before == select_min(RowSet(temps), f, combine(d, time_min), combine(d, time_max))
                 after  == select_min(RowSet(temps'), f, combine(d, time_min), combine(d, time_max))
             IN before # None => (after # None /\ after[1] <= before[1])]_vars

\* A reading of 10 was stored, then a reading of another feeder on another
\* day; low_by_date for the first feeder and day still returns 10.
C7_Witness ==
    /\ Len(temps) = 2
    /\ temps[1] \in acked /\ temps[2] \in acked
    /\ temps[1].celsius = <<10>> /\ temps[2].celsius = <<20>>
    /\ temps[1].feeder_id # temps[2].feeder_id
    /\ date_of(temps[1].ts) # date_of(temps[2].ts)
    /\ ret.op = "low_by_date" /\ ret.feeder = temps[1].feeder_id
    /\ ret.window = <<date_of(temps[1].ts), date_of(temps[1].ts)>>
    /\ ret.value = <<10>>

\* C8: create_all creates only the missing tables: afterwards both tables
\* exist, and every table that existed before keeps its rows; applied when both
\* exist it changes neither the set of tables nor any row.
C8_CreateAllIdempotent ==
    [][create_all =>
          /\ tables' = tables \cup metadata
          /\ "feeders" \in tables => feeders' = feeders
          /\ "temps" \in tables => temps' = temps
          /\ tables = metadata => (tables' = tables /\ feeders' = feeders /\ temps' = temps)]_vars

\* create_all was applied while feeders and temps existed and held rows.
C8_Witness ==
    /\ ret.op = "create_all"
    /\ tables = metadata
    /\ feeders # {}
    /\ Len(temps) = MaxRows

\* C9: under any interleaving of callers, every store_packet call that
\* returned normally has exactly one row in temps (the row count is the number
\* of such calls, temps being empty at the start), and low_by_date returns the
\* minimum over rows of committed transactions only.
C9_ConcurrentCallsIsolated ==
    /\ Len(temps) = Cardinality(acked)
    /\ \A r \in acked : Cardinality({i \in 1..Len(temps) : temps[i] = r}) = 1
    /\ \A i \in 1..Len(temps) : temps[i] \in acked
    /\ ret.op = "low_by_date" =>
          ret.value = Lowest(acked, ret.feeder[1], ret.window[1], ret.window[2])

\* One caller's row is committed, another caller holds an uncommitted colder
\* row of the same feeder and day, and low_by_date has answered with the
\* committed one.
C9_Witness ==
    \E c \in Callers :
        /\ pc[c] = "inserted"
        /\ Len(temps) = 1 /\ Len(txn[c]) = 2
        /\ temps[1].celsius = <<20>>
        /\ txn[c][2].celsius = <<10>>
        /\ txn[c][2].feeder_id = temps[1].feeder_id
        /\ txn[c][2].ts = temps[1].ts
        /\ ret.op = "low_by_date" /\ ret.feeder = temps[1].feeder_id
        /\ ret.window = <<date_of(temps[1].ts), date_of(temps[1].ts)>>
        /\ ret.value = <<20>>

\* C10: the two bounds of the query of low_by_date are the start and the end
\* of one and the same calendar date, also when no date is given and midnight
\* passes during the call.
C10_WindowIsOneDay ==
    ret.op = "low_by_date" => ret.window[1] = ret.window[2]

====
